---- MODULE Spec2Model ----
(***************************************************************************)
(* rpi-cloudflare-ddns: a model of src/src/main.py (version 2.0.0).        *)
(*                                                                         *)
(* Three specifications share the variables below:                         *)
(*   Spec      one reconciliation pass: prepare_updates, update_records,   *)
(*             prepare_updates again, over bounded inputs;                 *)
(*   SpecLoop  the polling loop of run();                                  *)
(*   SpecMain  main() and the start-up part of run().                      *)
(*                                                                         *)
(* Python strings that the code transforms (names) are sequences of        *)
(* one-character strings, so that lower() and strip() are computed.        *)
(* Strings that are only compared (IPs, zone ids) are TLA+ strings.        *)
(***************************************************************************)
EXTENDS Integers, Sequences, FiniteSets, TLC

VARIABLES
    pc,             \* position of the modelled control flow
    cf_config,      \* Spec: the zone configuration given to prepare_updates
    records,        \* Spec: the zone's records at the provider (fetched list)
    ip,             \* the candidate public IP (None when the lookup failed)
    updates,        \* the list returned by the last prepare_updates
    raised,         \* the exception the last prepare_updates raised, or None
    first_updates,  \* Spec: the list returned by the first pass
    calls,          \* provider calls made, in order
    failed,         \* Spec: indices of the batch whose update call failed
    escaped,        \* exception that left update_records, or None
    config,         \* SpecLoop/SpecMain: the loaded top-level configuration
    valid_configs,  \* SpecLoop: the validated zone configurations
    provider,       \* SpecLoop: provider state, zone id -> list of records
    last_known_ip,  \* SpecLoop: run()'s last_known_ip
    zone_idx,       \* SpecLoop: index of the zone the cycle is processing
    lookups,        \* SpecLoop: get_public_ip calls so far
    sleeps,         \* SpecLoop: time.sleep calls so far
    api_failed,     \* SpecLoop: the IP whose processing saw a provider call fail
    lookup,         \* SpecLoop: the last IP lookup, its outcome and exception
    client,         \* SpecMain: the credentials the provider client uses
    env,            \* SpecMain: the process environment and config file
    run_result,     \* SpecMain: what run() returned
    exit_code,      \* SpecMain: what main() returned
    log             \* SpecMain: error messages logged

vars == <<pc, cf_config, records, ip, updates, raised, first_updates, calls,
          failed, escaped, config, valid_configs, provider, last_known_ip,
          zone_idx, lookups, sleeps, api_failed, lookup, client, env,
          run_result, exit_code, log>>

None == "None"

-----------------------------------------------------------------------------
(* Strings *)

UpperLetters == <<"A","B","C","D","E","F","G","H","I","J","K","L","M",
                  "N","O","P","Q","R","S","T","U","V","W","X","Y","Z">>
LowerLetters == <<"a","b","c","d","e","f","g","h","i","j","k","l","m",
                  "n","o","p","q","r","s","t","u","v","w","x","y","z">>
Whitespace == {" ", "\t", "\n", "\r"}

\* str.lower() on one character
LowerChar(c) ==
    IF \E i \in 1..Len(UpperLetters) : UpperLetters[i] = c
    THEN LowerLetters[CHOOSE i \in 1..Len(UpperLetters) : UpperLetters[i] = c]
    ELSE c

\* str.lower()
Lower(s) == [i \in 1..Len(s) |-> LowerChar(s[i])]

RECURSIVE LStrip(_)
LStrip(s) ==
    IF s # <<>> /\ Head(s) \in Whitespace THEN LStrip(Tail(s)) ELSE s

RECURSIVE RStrip(_)
RStrip(s) ==
    IF s # <<>> /\ s[Len(s)] \in Whitespace
    THEN RStrip(SubSeq(s, 1, Len(s) - 1))
    ELSE s

\* str.strip()
Strip(s) == RStrip(LStrip(s))

\* f"{name}.{base_domain}"
Dotted(name, base_domain) == name \o <<".">> \o base_domain

-----------------------------------------------------------------------------
(* prepare_updates *)

RecordKeyAsIs(record) == record.name

\* record.name.lower(), the key of record_map
RecordKey(record) == Lower(record.name)

\* record_map[key] = record
MapPut(record_map, key, record) ==
    [k \in (DOMAIN record_map) \cup {key} |->
        IF k = key THEN record ELSE record_map[k]]

\* for record in records: record_map[record.name.lower()] = record
RECURSIVE BuildRecordMap(_, _, _)
BuildRecordMap(recs, i, record_map) ==
    IF i > Len(recs) THEN record_map
    ELSE BuildRecordMap(recs, i + 1,
                        MapPut(record_map, RecordKey(recs[i]), recs[i]))

RecordMapGetOrCreate(record_map, fqdn) ==
    IF fqdn \in DOMAIN record_map THEN <<record_map[fqdn]>>
    ELSE <<[id |-> 0, name |-> fqdn, type |-> "A", content |-> "",
            proxied |-> FALSE, ttl |-> 1]>>

\* record_map.get(fqdn): <<record>> when the key is present, <<>> for None
RecordMapGet(record_map, fqdn) ==
    IF fqdn \in DOMAIN record_map THEN <<record_map[fqdn]>> ELSE <<>>

\* subdomain["name"].lower().strip()
NormalizeName(subdomain) == Strip(Lower(subdomain.name))

\* fqdn = base_domain; if name != "" and name != "@": fqdn = f"{name}.{base_domain}"
Fqdn(name, base_domain) ==
    IF name # <<>> /\ name # <<"@">> THEN Dotted(name, base_domain)
    ELSE base_domain

NeedsUpdateAlways(record, new_ip) == TRUE

\* record.content != ip
NeedsUpdate(record, new_ip) == record.content # new_ip

MakeRequestFromRecord(zone_id, fqdn, record, proxied, new_ip) ==
    [zone_id |-> zone_id, fqdn |-> fqdn, record_id |-> record.id,
     record_type |-> record.type, proxied |-> record.proxied,
     content |-> new_ip]

\* DnsUpdateRequest(zone_id=..., fqdn=..., record_id=record.id,
\*                  record_type=record.type, proxied=proxied,
\*                  content=record.content)
MakeRequest(zone_id, fqdn, record, proxied, new_ip) ==
    [zone_id |-> zone_id, fqdn |-> fqdn, record_id |-> record.id,
     record_type |-> record.type, proxied |-> proxied,
     content |-> record.content]

AppendUpdateFront(ups, u) == <<u>> \o ups

\* updates.append(...)
AppendUpdate(ups, u) == Append(ups, u)

\* The body of "for subdomain in config["subdomains"]", from index i on.
\* subdomain["proxied"] raises KeyError when the key is absent, before
\* the record is looked up.
RECURSIVE SubdomainLoop(_, _, _, _, _)
SubdomainLoop(zone_config, record_map, new_ip, i, ups) ==
    IF i > Len(zone_config.subdomains) THEN [raised |-> None, updates |-> ups]
    ELSE
        LET subdomain == zone_config.subdomains[i]
            name == NormalizeName(subdomain)
            fqdn == Fqdn(name, zone_config.zone_name)
            found == RecordMapGet(record_map, fqdn)
        IN  IF "proxied" \notin DOMAIN subdomain
            THEN [raised |-> "KeyError", updates |-> <<>>]
            ELSE IF found # <<>> /\ NeedsUpdate(found[1], new_ip)
            THEN SubdomainLoop(zone_config, record_map, new_ip, i + 1,
                     AppendUpdate(ups,
                         MakeRequest(zone_config.zone_id, fqdn, found[1],
                                     subdomain.proxied, new_ip)))
            ELSE SubdomainLoop(zone_config, record_map, new_ip, i + 1, ups)

\* prepare_updates(config, records, ip): the list returned, or the
\* exception raised
prepare_updates(zone_config, recs, new_ip) ==
    SubdomainLoop(zone_config, BuildRecordMap(recs, 1, <<>>), new_ip, 1, <<>>)

-----------------------------------------------------------------------------
(* update_records *)

\* cf.dns.records.update(dns_record_id=..., content=ip, name=..., type=...,
\* proxied=..., ttl=...) when it succeeds: the provider's record with that
\* id takes the given values.
ProviderUpdate(recs, u, new_ip, ttl) ==
    [i \in 1..Len(recs) |->
        IF recs[i].id = u.record_id
        THEN [id |-> recs[i].id, name |-> u.fqdn, type |-> u.record_type,
              content |-> new_ip, proxied |-> u.proxied, ttl |-> ttl]
        ELSE recs[i]]

\* The call as the provider sees it.
UpdateCall(u, zone_id, new_ip, ttl, ok) ==
    [op |-> "update", zone_id |-> zone_id, record_id |-> u.record_id,
     name |-> u.fqdn, content |-> new_ip, proxied |-> u.proxied,
     ttl |-> ttl, ok |-> ok]

\* itertools.groupby(updates, key=attrgetter("zone_id")): the runs of
\* consecutive requests with the same zone_id, each with the index of its
\* first request in the batch.
RECURSIVE GroupBy(_, _, _)
GroupBy(ups, i, groups) ==
    IF i > Len(ups) THEN groups
    ELSE IF groups # <<>> /\ groups[Len(groups)].key = ups[i].zone_id
    THEN GroupBy(ups, i + 1,
             [groups EXCEPT ![Len(groups)].items = Append(@, ups[i])])
    ELSE GroupBy(ups, i + 1,
             Append(groups, [key |-> ups[i].zone_id, first |-> i,
                             items |-> <<ups[i]>>]))

AfterFailureBreak(j, n) == n + 1

\* "except Exception: ... continue": the next request of the zone
AfterFailure(j, n) == j + 1

\* "for update in zone_updates", from index j on. fails is the set of
\* batch indices whose provider call raises.
RECURSIVE ZoneUpdateLoop(_, _, _, _, _, _)
ZoneUpdateLoop(group, j, new_ip, ttl, fails, st) ==
    IF j > Len(group.items) THEN st
    ELSE
        LET u == group.items[j]
            k == group.first + j - 1
        IN  IF k \in fails
            THEN ZoneUpdateLoop(group, AfterFailure(j, Len(group.items)),
                     new_ip, ttl, fails,
                     [st EXCEPT !.calls =
                         Append(@, UpdateCall(u, group.key, new_ip, ttl, FALSE))])
            ELSE ZoneUpdateLoop(group, j + 1, new_ip, ttl, fails,
                     [recs |-> ProviderUpdate(st.recs, u, new_ip, ttl),
                      calls |-> Append(st.calls,
                                  UpdateCall(u, group.key, new_ip, ttl, TRUE)),
                      escaped |-> st.escaped])

\* "for zone_id, zone_updates in groupby(...)", from group g on
RECURSIVE GroupLoop(_, _, _, _, _, _)
GroupLoop(groups, g, new_ip, ttl, fails, st) ==
    IF g > Len(groups) THEN st
    ELSE GroupLoop(groups, g + 1, new_ip, ttl, fails,
             ZoneUpdateLoop(groups[g], 1, new_ip, ttl, fails, st))

\* update_records(cf, updates, ip, ttl): the provider's records afterwards,
\* the calls made and the exception that escaped (None: it returned)
update_records(recs, ups, new_ip, ttl, fails) ==
    GroupLoop(GroupBy(ups, 1, <<>>), 1, new_ip, ttl, fails,
              [recs |-> recs, calls |-> <<>>, escaped |-> None])

\* ttl = int(config.get("ttl", 300))
RunTtl(cfg) == IF "ttl" \in DOMAIN cfg THEN cfg.ttl ELSE 300

-----------------------------------------------------------------------------
(* get_public_ip *)

\* No lookup made yet
NoLookup == [outcome |-> [kind |-> "none", body |-> ""], raised |-> None]

\* "public_ip = None; try: ... public_ip = response.read().decode("utf-8")
\* except urllib.error.URLError ... except TimeoutError ...": the value of
\* public_ip and the exception still pending when the finally clause runs
TryLookup(outcome) ==
    [public_ip |-> IF outcome.kind = "ok" THEN outcome.body ELSE None,
     pending |-> IF outcome.kind \in {"ok", "URLError", "TimeoutError"}
                 THEN None ELSE outcome.kind]

FinallyPropagates(st) == [value |-> st.public_ip, raised |-> st.pending]

\* "finally: return public_ip": a return in a finally clause discards the
\* pending exception
FinallyReturn(st) == [value |-> st.public_ip, raised |-> None]

\* get_public_ip(): the value returned and the exception raised
get_public_ip(outcome) == FinallyReturn(TryLookup(outcome))

-----------------------------------------------------------------------------
(* CONFIG_SCHEMA *)

\* {"name": str, SchemaOptional("proxied"): bool}: any other key is a
\* wrong key
SchemaAcceptsSubdomain(subdomain) ==
    /\ "name" \in DOMAIN subdomain
    /\ DOMAIN subdomain \subseteq {"name", "proxied"}

\* Or({"api_token": str}, {"api_key": str, "api_email": str})
SchemaAcceptsAuth(auth) ==
    \/ DOMAIN auth = {"api_token"}
    \/ DOMAIN auth = {"api_key", "api_email"}

\* One entry of the "cloudflare" list
SchemaAcceptsZone(zone) ==
    /\ DOMAIN zone = {"authentication", "zone_id", "subdomains"}
    /\ SchemaAcceptsAuth(zone.authentication)
    /\ \A i \in 1..Len(zone.subdomains) :
         SchemaAcceptsSubdomain(zone.subdomains[i])

\* And(Use(int), lambda n: 60 < n <= 86400)
SchemaAcceptsTtl(n) == 60 < n /\ n <= 86400

\* CONFIG_SCHEMA.validate(config) does not raise SchemaError
SchemaValidates(cfg) ==
    /\ "cloudflare" \in DOMAIN cfg
    /\ DOMAIN cfg \subseteq {"cloudflare", "ttl"}
    /\ \A i \in 1..Len(cfg.cloudflare) : SchemaAcceptsZone(cfg.cloudflare[i])
    /\ "ttl" \in DOMAIN cfg => SchemaAcceptsTtl(cfg.ttl)

-----------------------------------------------------------------------------
(* Bounded inputs *)

MaxSpecs == 2       \* subdomain specs per zone
MaxRecords == 2     \* records per zone at the provider

test == <<"t","e","s","t">>
TEST_padded == <<" ","T","E","S","T"," ">>
example_com == <<"e","x","a","m","p","l","e",".","c","o","m">>
Example_Com == <<"E","x","a","m","p","l","e",".","C","o","m">>
test_example_com == test \o <<".">> \o example_com
Test_Example_Com == <<"T","e","s","t",".">> \o Example_Com

OldIp == "1.1.1.1"
NewIp == "2.2.2.2"

\* Subdomain entries the schema accepts, plus the "ttl" key of the tests
SubdomainSpecs ==
    { [name |-> test, proxied |-> TRUE, ttl |-> 120],
      [name |-> TEST_padded, proxied |-> FALSE],
      [name |-> <<"@">>, proxied |-> FALSE],
      [name |-> <<>>, proxied |-> TRUE, ttl |-> 1],
      [name |-> test] }

RecordShapes ==
    { [name |-> test_example_com, content |-> OldIp],
      [name |-> Test_Example_Com, content |-> OldIp],
      [name |-> example_com, content |-> OldIp],
      [name |-> example_com, content |-> NewIp] }

SeqsUpTo(S, n) == UNION {[1..k -> S] : k \in 0..n}

\* Lists of A records as the provider returns them: ids are unique
RecordLists(n) ==
    { [i \in 1..Len(f) |->
          [id |-> i, name |-> f[i].name, type |-> "A",
           content |-> f[i].content, proxied |-> FALSE, ttl |-> 1]] :
      f \in SeqsUpTo(RecordShapes, n) }

\* Zone configurations as prepare_updates receives them: after validation
\* (zone_name set from the provider's zone), without and with the "ttl"
\* key of the tests
ZoneConfigs ==
    { [zone_id |-> "zone1", zone_name |-> zn, subdomains |-> subs] :
        zn \in {example_com, Example_Com},
        subs \in SeqsUpTo(SubdomainSpecs, MaxSpecs) }
    \cup
    { [zone_id |-> "zone1", zone_name |-> example_com, subdomains |-> subs,
       ttl |-> 300] :
        subs \in SeqsUpTo(SubdomainSpecs, MaxSpecs) }

-----------------------------------------------------------------------------
(* Spec: one reconciliation pass *)

LoopIdle ==
    /\ config = None /\ valid_configs = <<>> /\ provider = <<>>
    /\ last_known_ip = None /\ zone_idx = 0 /\ lookups = 0 /\ sleeps = 0
    /\ api_failed = None /\ lookup = NoLookup

MainIdle ==
    /\ env = None /\ run_result = None /\ exit_code = None /\ log = <<>>
    /\ client = <<>>

PassIdle ==
    /\ cf_config = None /\ records = <<>> /\ first_updates = <<>>
    /\ failed = {}

loopVars == <<config, valid_configs, provider, last_known_ip, zone_idx, lookups,
              sleeps, api_failed, lookup>>
mainVars == <<env, run_result, exit_code, log, client>>

Init ==
    /\ pc = "start"
    /\ cf_config \in ZoneConfigs
    /\ records \in RecordLists(MaxRecords)
    /\ ip = NewIp
    /\ updates = <<>> /\ raised = None /\ first_updates = <<>>
    /\ calls = <<>> /\ failed = {} /\ escaped = None
    /\ LoopIdle /\ MainIdle

\* updates = prepare_updates(cf_config, records, ip), first pass
PrepareUpdates ==
    /\ pc = "start"
    /\ \E r \in {prepare_updates(cf_config, records, ip)} :
           /\ updates' = r.updates
           /\ first_updates' = r.updates
           /\ raised' = r.raised
           /\ pc' = IF r.raised = None THEN "prepared" ELSE "raised"
    /\ UNCHANGED <<cf_config, records, ip, calls, failed, escaped>>
    /\ UNCHANGED loopVars /\ UNCHANGED mainVars

\* if updates: update_records(cf, updates, ip, ttl)
UpdateRecords ==
    /\ pc = "prepared" /\ updates # <<>>
    /\ \E fails \in SUBSET (1..Len(updates)) :
         \E r \in {update_records(records, updates, ip, RunTtl(cf_config),
                                   fails)} :
             /\ records' = r.recs
             /\ calls' = r.calls
             /\ escaped' = r.escaped
             /\ failed' = fails
    /\ pc' = "updated"
    /\ UNCHANGED <<cf_config, ip, updates, raised, first_updates>>
    /\ UNCHANGED loopVars /\ UNCHANGED mainVars

\* else: logger.info("No records need updating")
NoUpdates ==
    /\ pc = "prepared" /\ updates = <<>>
    /\ pc' = "updated"
    /\ UNCHANGED <<cf_config, records, ip, updates, raised, first_updates,
                   calls, failed, escaped>>
    /\ UNCHANGED loopVars /\ UNCHANGED mainVars

\* prepare_updates once more, with the same configuration and IP
PrepareUpdatesAgain ==
    /\ pc = "updated"
    /\ \E r \in {prepare_updates(cf_config, records, ip)} :
           /\ updates' = r.updates
           /\ raised' = r.raised
    /\ pc' = "done"
    /\ UNCHANGED <<cf_config, records, ip, first_updates, calls, failed,
                   escaped>>
    /\ UNCHANGED loopVars /\ UNCHANGED mainVars

Next == PrepareUpdates \/ UpdateRecords \/ NoUpdates \/ PrepareUpdatesAgain

Spec == Init /\ [][Next]_vars

-----------------------------------------------------------------------------
(* What the claims expect, written out for the bounded inputs *)

\* The normalized form of each spec name of SubdomainSpecs
ExpectedName(name) ==
    CASE name = test -> test
      [] name = TEST_padded -> test
      [] name = <<"@">> -> <<"@">>
      [] name = <<>> -> <<>>

\* The fqdn the claims give a spec name under a base domain
ExpectedFqdn(name, base_domain) ==
    IF ExpectedName(name) \in {<<>>, <<"@">>} THEN base_domain
    ELSE ExpectedName(name) \o <<".">> \o base_domain

\* The lower-cased form of each record name of RecordShapes
ExpectedKey(record_name) ==
    CASE record_name = test_example_com -> test_example_com
      [] record_name = Test_Example_Com -> test_example_com
      [] record_name = example_com -> example_com
      [] OTHER -> record_name

SpecFqdns ==
    [i \in 1..Len(cf_config.subdomains) |->
        ExpectedFqdn(cf_config.subdomains[i].name, cf_config.zone_name)]

UpdateFqdns == [k \in 1..Len(updates) |-> updates[k].fqdn]

\* Indices of the provider records whose name matches fqdn
Matching(fqdn) ==
    {j \in 1..Len(records) : ExpectedKey(records[j].name) = fqdn}

\* The record the lookup yields for fqdn: the last one of that name
Winner(fqdn) ==
    records[CHOOSE j \in Matching(fqdn) : \A m \in Matching(fqdn) : m <= j]

\* subdomain ttl, else the configured global ttl, else 300
ResolvedTtl(subdomain) ==
    IF "ttl" \in DOMAIN subdomain THEN subdomain.ttl
    ELSE IF "ttl" \in DOMAIN cf_config THEN cf_config.ttl
    ELSE 300

RECURSIVE IsSubsequence(_, _)
IsSubsequence(a, b) ==
    IF a = <<>> THEN TRUE
    ELSE IF b = <<>> THEN FALSE
    ELSE IF Head(a) = Head(b) THEN IsSubsequence(Tail(a), Tail(b))
    ELSE IsSubsequence(a, Tail(b))

-----------------------------------------------------------------------------
(* Claims about prepare_updates and update_records, under Spec *)

\* C1: every request prepare_updates emits carries a ttl, resolved as the
\* spec's own ttl if present (1 included), else the global ttl, else 300.
\* DnsUpdateRequest has no ttl field, so this fails on the first request.
C1_RequestCarriesResolvedTtl ==
    pc = "prepared" =>
        \A k \in 1..Len(updates) :
            /\ "ttl" \in DOMAIN updates[k]
            /\ \E i \in 1..Len(cf_config.subdomains) :
                 /\ SpecFqdns[i] = updates[k].fqdn
                 /\ updates[k].ttl = ResolvedTtl(cf_config.subdomains[i])

\* C2: every request's record_id is the id of a fetched record of that
\* fqdn, a spec whose fqdn has no record yields no request, and
\* update_records only updates records that exist: none is created.
C2_NoRecordNoRequest ==
    /\ pc = "prepared" =>
         /\ \A k \in 1..Len(updates) :
              \E j \in Matching(updates[k].fqdn) :
                  records[j].id = updates[k].record_id
         /\ \A i \in 1..Len(cf_config.subdomains) :
              Matching(SpecFqdns[i]) = {} =>
                  \A k \in 1..Len(updates) : updates[k].fqdn # SpecFqdns[i]
    /\ pc = "updated" =>
         /\ \A c \in 1..Len(calls) :
              /\ calls[c].op = "update"
              /\ \E j \in 1..Len(records) : records[j].id = calls[c].record_id
         /\ \A j \in 1..Len(records) : records[j].id = j

C2_Witness ==
    /\ pc = "updated"
    /\ calls # <<>>
    /\ records # <<>>
    /\ \E i \in 1..Len(cf_config.subdomains) :
         /\ cf_config.zone_name = example_com
         /\ Matching(SpecFqdns[i]) = {}

\* C3: no request is emitted for a matched record whose content already
\* equals the candidate IP, and once every request of the first pass has
\* been applied, prepare_updates with the same IP and specs returns [].
C3_Idempotent ==
    /\ pc = "prepared" =>
         \A k \in 1..Len(updates) :
             \A j \in 1..Len(records) :
                 records[j].id = updates[k].record_id => records[j].content # ip
    /\ (pc = "done" /\ failed = {}) => updates = <<>>

C3_Witness ==
    /\ pc = "done"
    /\ first_updates # <<>>
    /\ failed = {}
    /\ updates = <<>>
    /\ \E j \in 1..Len(records) : records[j].content = ip

\* C4: prepare_updates returns at most one request per distinct fqdn, for
\* any list of specs. Two specs that normalize to the same fqdn each get a
\* request, so this fails.
C4_OneRequestPerFqdn ==
    pc = "prepared" =>
        \A k1, k2 \in 1..Len(updates) :
            updates[k1].fqdn = updates[k2].fqdn => k1 = k2

\* C5: the fqdns of the returned list, in order, are a subsequence of the
\* fqdns of config["subdomains"] in declaration order, whatever the order
\* of the provider's records.
C5_DeclarationOrder ==
    pc = "prepared" => IsSubsequence(UpdateFqdns, SpecFqdns)

C5_Witness ==
    /\ pc = "prepared"
    /\ Len(updates) = 2
    /\ updates[1].fqdn # updates[2].fqdn
    /\ updates[1].record_id = 2
    /\ updates[2].record_id = 1

C7_Scenario ==
    /\ cf_config.zone_name = example_com
    /\ cf_config.subdomains =
         <<[name |-> test, proxied |-> TRUE, ttl |-> 120],
           [name |-> <<"@">>, proxied |-> FALSE]>>
    /\ Len(records) = 2
    /\ records[1].name = test_example_com /\ records[1].content = OldIp
    /\ records[2].name = example_com /\ records[2].content = OldIp

C7_RequestFields ==
    pc = "prepared" =>
        /\ \A k \in 1..Len(updates) :
             /\ updates[k].zone_id = cf_config.zone_id
             /\ \E j \in Matching(updates[k].fqdn) :
                  /\ updates[k].record_id = records[j].id
                  /\ updates[k].record_type = records[j].type
                  /\ updates[k].content = records[j].content
                  /\ updates[k].content # ip
             /\ \E i \in 1..Len(cf_config.subdomains) :
                  /\ SpecFqdns[i] = updates[k].fqdn
                  /\ updates[k].proxied = cf_config.subdomains[i].proxied
        /\ C7_Scenario =>
             /\ Len(updates) = 2
             /\ updates[1].fqdn = test_example_com
             /\ updates[1].record_id = 1
             /\ updates[1].proxied = TRUE
             /\ updates[1].content = OldIp
             /\ updates[2].fqdn = example_com
             /\ updates[2].record_id = 2
             /\ updates[2].proxied = FALSE

C7_Witness ==
    /\ pc = "prepared"
    /\ C7_Scenario
    /\ Len(updates) = 2

\* C8: update_records attempts the provider update for every request of
\* the batch exactly once, in list order, whichever calls fail; the
\* successful updates stay applied and no error leaves update_records.
C8_EveryRequestAttempted ==
    pc = "updated" /\ updates # <<>> =>
        /\ Len(calls) = Len(updates)
        /\ \A k \in 1..Len(updates) :
             /\ calls[k].record_id = updates[k].record_id
             /\ calls[k].name = updates[k].fqdn
             /\ calls[k].content = ip
             /\ calls[k].ok = (k \notin failed)
        /\ \A k \in (1..Len(updates)) \ failed :
             \A j \in 1..Len(records) :
                 records[j].id = updates[k].record_id => records[j].content = ip
        /\ escaped = None

C8_Witness ==
    /\ pc = "updated"
    /\ Len(updates) = 2
    /\ failed = {1}
    /\ Len(calls) = 2
    /\ calls[2].ok

\* C11: prepare_updates raises no error for any subdomain spec the
\* configuration schema accepts; a spec without the optional "proxied" key
\* is processed like the others. subdomain["proxied"] raises KeyError for
\* such a spec.
C11_NoErrorForSchemaSpecs ==
    (/\ pc \in {"prepared", "raised"}
     /\ \A i \in 1..Len(cf_config.subdomains) :
          SchemaAcceptsSubdomain(cf_config.subdomains[i]))
    => raised = None

\* C16: the ttl update_records sends for a record is the ttl resolved for
\* that record's subdomain spec: subdomain ttl, else global ttl, else 300.
\* update_records sends its one ttl argument, the global ttl or 300, for
\* every record.
C16_TtlSentIsResolved ==
    pc = "updated" =>
        \A c \in 1..Len(calls) :
            \E i \in 1..Len(cf_config.subdomains) :
                /\ SpecFqdns[i] = calls[c].name
                /\ calls[c].ttl = ResolvedTtl(cf_config.subdomains[i])

-----------------------------------------------------------------------------
(* SpecLoop: the polling loop of run() *)

MaxZones == 2       \* validated zones
MaxCycles == 3      \* poll cycles explored

example_org == <<"e","x","a","m","p","l","e",".","o","r","g">>

\* Zone entries of the configuration file
Zone1 ==
    [authentication |-> [api_token |-> "token"], zone_id |-> "zone1",
     subdomains |-> <<[name |-> test, proxied |-> TRUE],
                      [name |-> <<"@">>, proxied |-> FALSE]>>]
Zone2 ==
    [authentication |-> [api_token |-> "token"], zone_id |-> "zone2",
     subdomains |-> <<[name |-> <<"@">>]>>]

\* zone.name as the provider reports it
ZoneNameOf(zone_id) == IF zone_id = "zone1" THEN example_com ELSE example_org

\* cf_config["zone_name"] = zone.name; cf_config["client"] = cf
Validated(zone) ==
    [authentication |-> zone.authentication, zone_id |-> zone.zone_id,
     subdomains |-> zone.subdomains, zone_name |-> ZoneNameOf(zone.zone_id),
     client |-> "cf"]

\* The records of each zone at the provider when the loop starts
ProviderInit ==
    [z \in {"zone1", "zone2"} |->
        IF z = "zone1"
        THEN <<[id |-> 1, name |-> test_example_com, type |-> "A",
                content |-> OldIp, proxied |-> FALSE, ttl |-> 1],
               [id |-> 2, name |-> test_example_com, type |-> "AAAA",
                content |-> "::1", proxied |-> FALSE, ttl |-> 1],
               [id |-> 3, name |-> example_com, type |-> "A",
                content |-> OldIp, proxied |-> FALSE, ttl |-> 1]>>
        ELSE <<[id |-> 1, name |-> example_org, type |-> "A",
                content |-> OldIp, proxied |-> FALSE, ttl |-> 1]>>]

\* What get_public_ip can return: None on failure, else the response body
LookupResults == {None, "", NewIp, "3.3.3.3"}

\* What the lookup service does: it answers with a body, or urlopen/read
\* raises URLError, TimeoutError or some other exception
\* check_interval = int(os.environ.get("CHECK_INTERVAL", 900)): the default,
\* or a negative interval, for which time.sleep raises ValueError
CheckIntervals == {900, -1}

LookupOutcomes ==
    [kind : {"ok"}, body : LookupResults \ {None}]
    \cup [kind : {"URLError", "TimeoutError", "Exception"}, body : {""}]

IsARecord(record) == record.type = "A"

\* fetch_records(cf, zone_id): the zone's A records, [] when the list call
\* raises
fetch_records(recs, ok) == IF ok THEN SelectSeq(recs, IsARecord) ELSE <<>>

ListCall(zone_id, ok) == [op |-> "list", zone_id |-> zone_id, ok |-> ok]

\* The state at the head of "while True" (lines 323-329), entered with a
\* non-empty valid_configs
LoopInit ==
    /\ pc = "lookup"
    /\ \E zones \in SeqsUpTo({Zone1, Zone2}, MaxZones) :
         /\ zones # <<>>
         /\ config \in {[cloudflare |-> zones],
                        [cloudflare |-> zones, ttl |-> 600]}
         /\ valid_configs = [i \in 1..Len(zones) |-> Validated(zones[i])]
    /\ provider = ProviderInit
    /\ last_known_ip = None
    /\ ip = None
    /\ zone_idx = 0 /\ lookups = 0 /\ sleeps = 0
    /\ api_failed = None /\ lookup = NoLookup
    /\ updates = <<>> /\ raised = None /\ calls = <<>> /\ escaped = None
    /\ env \in [check_interval : CheckIntervals]
    /\ run_result = None /\ exit_code = None /\ log = <<>> /\ client = <<>>
    /\ PassIdle

idleInLoop == <<cf_config, records, first_updates, failed, env, exit_code, log,
                client, config, valid_configs>>

\* ip = get_public_ip(); if not ip: ... (the failure branch sleeps next).
\* An exception of get_public_ip would leave ip as it was and reach
\* "except Exception" at line 362, which sleeps.
GetPublicIp ==
    /\ pc = "lookup"
    /\ lookups < MaxCycles
    /\ \E outcome \in LookupOutcomes :
       \E r \in {get_public_ip(outcome)} :
         /\ lookup' = [outcome |-> outcome, raised |-> r.raised]
         /\ ip' = IF r.raised = None THEN r.value ELSE ip
         /\ pc' = IF r.raised # None \/ r.value \in {None, ""}
                  THEN "sleep" ELSE "compare"
    /\ lookups' = lookups + 1
    /\ calls' = <<>>
    /\ UNCHANGED <<provider, last_known_ip, zone_idx, sleeps, api_failed,
                   updates, raised, escaped>>
    /\ UNCHANGED <<run_result>> /\ UNCHANGED idleInLoop

\* if ip != last_known_ip: for cf_config in valid_configs: ...
IpChanged ==
    /\ pc = "compare"
    /\ ip # last_known_ip
    /\ pc' = "zones"
    /\ zone_idx' = 1
    /\ api_failed' = None
    /\ UNCHANGED <<lookup, provider, last_known_ip, ip, lookups, sleeps, calls,
                   updates, raised, escaped>>
    /\ UNCHANGED <<run_result>> /\ UNCHANGED idleInLoop

IpUnchangedProcesses ==
    /\ pc = "compare"
    /\ ip = last_known_ip
    /\ pc' = "zones"
    /\ zone_idx' = 1
    /\ UNCHANGED <<lookup, provider, last_known_ip, ip, lookups, sleeps, calls,
                   api_failed, updates, raised, escaped>>
    /\ UNCHANGED <<run_result>> /\ UNCHANGED idleInLoop

\* else: logger.info("No IP change detected ...")
IpUnchanged ==
    /\ pc = "compare"
    /\ ip = last_known_ip
    /\ pc' = "sleep"
    /\ UNCHANGED <<lookup, provider, last_known_ip, ip, zone_idx, lookups, sleeps,
                   calls, api_failed, updates, raised, escaped>>
    /\ UNCHANGED <<run_result>> /\ UNCHANGED idleInLoop

\* One iteration of "for cf_config in valid_configs": fetch_records,
\* prepare_updates, and update_records "if updates" (with an empty list
\* update_records makes no call); an exception of prepare_updates is
\* caught by the zone's "except Exception: ... continue".
ProcessZone ==
    /\ pc = "zones"
    /\ zone_idx <= Len(valid_configs)
    /\ \E list_ok \in BOOLEAN :
       \E r \in {prepare_updates(valid_configs[zone_idx],
                    fetch_records(provider[valid_configs[zone_idx].zone_id],
                                  list_ok), ip)} :
       \E fails \in SUBSET (1..Len(r.updates)) :
       \E u \in {update_records(provider[valid_configs[zone_idx].zone_id],
                                r.updates, ip, RunTtl(config), fails)} :
         /\ updates' = r.updates
         /\ raised' = r.raised
         /\ provider' = [provider EXCEPT
                            ![valid_configs[zone_idx].zone_id] = u.recs]
         /\ escaped' = u.escaped
         /\ calls' = calls
                \o <<ListCall(valid_configs[zone_idx].zone_id, list_ok)>>
                \o u.calls
         /\ api_failed' = IF ~list_ok \/ fails # {} THEN ip ELSE api_failed
    /\ zone_idx' = zone_idx + 1
    /\ UNCHANGED <<pc, last_known_ip, ip, lookups, sleeps, lookup>>
    /\ UNCHANGED <<run_result>> /\ UNCHANGED idleInLoop

\* last_known_ip = ip, after the last zone
ZonesDone ==
    /\ pc = "zones"
    /\ zone_idx > Len(valid_configs)
    /\ last_known_ip' = ip
    /\ pc' = "sleep"
    /\ UNCHANGED <<lookup, provider, ip, zone_idx, lookups, sleeps, calls, api_failed,
                   updates, raised, escaped>>
    /\ UNCHANGED <<run_result>> /\ UNCHANGED idleInLoop

\* time.sleep(check_interval), then the next iteration of "while True".
\* With a negative interval time.sleep raises ValueError: inside the try it
\* reaches "except Exception" at line 362, whose time.sleep raises again,
\* now outside the inner try, and run() returns 1 at line 366.
Sleep ==
    /\ pc = "sleep"
    /\ IF env.check_interval >= 0
       THEN /\ sleeps' = sleeps + 1
            /\ pc' = "lookup"
            /\ UNCHANGED <<raised, run_result>>
       ELSE /\ raised' = "ValueError"
            /\ run_result' = 1
            /\ pc' = "run_returned"
            /\ UNCHANGED sleeps
    /\ UNCHANGED <<lookup, provider, last_known_ip, ip, zone_idx, lookups, calls,
                   api_failed, updates, escaped>>
    /\ UNCHANGED idleInLoop

LoopNext ==
    GetPublicIp \/ IpChanged \/ IpUnchanged \/ ProcessZone \/ ZonesDone \/ Sleep

SpecLoop == LoopInit /\ [][LoopNext]_vars

\* C9: a provider API failure in a poll cycle is transient: when a later
\* cycle finds the same public IP, it attempts the provider calls again.
\* Stated on the end of a cycle: if the last processing of the current IP
\* saw a provider call fail, this cycle has called the provider. The code
\* sets last_known_ip even when calls failed, so the next cycle with the
\* same IP makes no call.
C9_FailedCycleRetried ==
    (pc = "sleep" /\ ip \notin {None, ""} /\ api_failed = ip) => calls # <<>>

\* C13: get_public_ip never raises: the loop's ip is the response body when
\* the lookup succeeded and None when the lookup failed with any exception,
\* URLError, TimeoutError or another one.
C13_GetPublicIpNeverRaises ==
    lookups > 0 =>
        /\ lookup.raised = None
        /\ lookup.outcome.kind = "ok" => ip = lookup.outcome.body
        /\ lookup.outcome.kind # "ok" => ip = None

\* A lookup failed with an exception that get_public_ip has no handler for
C13_Witness ==
    /\ pc = "sleep"
    /\ lookup.outcome.kind = "Exception"
    /\ lookup.raised = None
    /\ ip = None

\* The lookup of the current cycle failed or returned an empty body
LookupFailed == lookup.outcome.kind # "ok" \/ ip \in {None, ""}

\* C17, per step: a cycle whose lookup failed or found the IP unchanged goes
\* to its sleep without a provider call and without changing last_known_ip;
\* last_known_ip changes only to the non-empty IP of this cycle's lookup; a
\* sleep calls nothing and changes neither last_known_ip nor the provider.
C17_Step ==
    /\ (pc = "lookup" /\ pc' # "lookup" /\ LookupFailed') =>
          /\ pc' = "sleep"
          /\ calls' = <<>>
          /\ last_known_ip' = last_known_ip /\ provider' = provider
    /\ (pc = "compare" /\ ip = last_known_ip) =>
          /\ pc' = "sleep"
          /\ calls' = <<>>
          /\ last_known_ip' = last_known_ip /\ provider' = provider
    /\ pc = "sleep" =>
          /\ calls' = calls
          /\ last_known_ip' = last_known_ip /\ provider' = provider
    /\ last_known_ip' # last_known_ip =>
          /\ last_known_ip' = ip
          /\ ip \notin {None, ""}
          /\ lookup.outcome.kind = "ok" /\ lookup.outcome.body = ip
          /\ lookup' = lookup

\* C17, sleeps: every lookup but the first starts after exactly one sleep
\* since the lookup before it.
C17_OneSleepPerCycle ==
    /\ pc = "lookup" => sleeps = lookups
    /\ pc \in {"compare", "zones", "sleep"} => sleeps = lookups - 1

\* C17: in the polling loop a cycle with a failed lookup or an unchanged IP
\* makes no provider call and keeps last_known_ip; last_known_ip only
\* changes to a non-empty IP returned in the same cycle; each cycle ends
\* with exactly one sleep before the next lookup.
C17_QuietCycles == [][C17_Step]_vars /\ []C17_OneSleepPerCycle

\* A second cycle found the IP of the first and went to sleep without a call
C17_Witness ==
    /\ pc = "sleep"
    /\ lookups = 2 /\ sleeps = 1
    /\ ip = NewIp /\ last_known_ip = NewIp
    /\ calls = <<>>

-----------------------------------------------------------------------------
(* SpecMain: main() and the start-up part of run() *)

\* What load_configuration finds in the working directory: no config file,
\* a file that is not YAML, a file the schema rejects, or a valid file
\* (token authentication, key and email authentication, no zone entry)
ConfigFiles ==
    {"missing", "invalid_yaml", "schema_error", "token", "key_email",
     "no_zones", "subdomain_ttl"}

ConfigErrors == {"missing", "invalid_yaml", "schema_error"}

\* yaml.safe_load of the text of a config file that parses
LoadedConfig(file) ==
    CASE file = "token" -> [cloudflare |-> <<Zone1>>, ttl |-> 300]
      [] file = "key_email" ->
            [cloudflare |->
                <<[authentication |-> [api_key |-> "key", api_email |-> "mail"],
                   zone_id |-> "zone1", subdomains |-> Zone1.subdomains]>>]
      [] file = "no_zones" -> [cloudflare |-> <<>>]
      [] file = "schema_error" -> [cloudflare |-> <<[wrong_key |-> "value"]>>]
      [] file = "subdomain_ttl" ->
            [cloudflare |->
                <<[authentication |-> [api_token |-> "test-token"],
                   zone_id |-> "test-zone",
                   subdomains |->
                       <<[name |-> test, proxied |-> TRUE, ttl |-> 120],
                         [name |-> <<"a", "u", "t", "o">>, proxied |-> FALSE,
                          ttl |-> 1]>>]>>,
             ttl |-> 300]

\* load_configuration(): the configuration, or the exception raised
load_configuration(file) ==
    IF file = "missing"
    THEN [raised |-> "FileNotFoundError", config |-> None, logged |-> <<>>]
    ELSE IF file = "invalid_yaml"
    THEN [raised |-> "YAMLError", config |-> None,
          logged |-> <<"Invalid YAML in config file">>]
    ELSE IF ~SchemaValidates(LoadedConfig(file))
    THEN [raised |-> "SchemaError", config |-> None,
          logged |-> <<"Configuration validation failed">>]
    ELSE [raised |-> None, config |-> LoadedConfig(file), logged |-> <<>>]

\* "if api_token:", "if api_key and api_email:": None and "" are false
Truthy(v) == v \notin {None, ""}

\* Cloudflare(api_token=...) and Cloudflare(api_key=..., api_email=...)
Cloudflare(credentials) == credentials

get_cloudflare_client_config_first(environ, auth_config) ==
    IF "api_token" \in DOMAIN auth_config
    THEN [raised |-> None,
          client |-> Cloudflare([api_token |-> auth_config.api_token])]
    ELSE IF "api_key" \in DOMAIN auth_config /\ "api_email" \in DOMAIN auth_config
    THEN [raised |-> None,
          client |-> Cloudflare([api_key |-> auth_config.api_key,
                                 api_email |-> auth_config.api_email])]
    ELSE IF Truthy(environ.token_env)
    THEN [raised |-> None,
          client |-> Cloudflare([api_token |-> environ.token_env])]
    ELSE IF Truthy(environ.key_env) /\ Truthy(environ.email_env)
    THEN [raised |-> None,
          client |-> Cloudflare([api_key |-> environ.key_env,
                                 api_email |-> environ.email_env])]
    ELSE [raised |-> "ValueError", client |-> None]

\* get_cloudflare_client(auth_config): the client built, or the exception
\* raised. environ.token_env, key_env and email_env are os.getenv of
\* CF_DDNS_API_TOKEN, CF_DDNS_API_KEY and CF_DDNS_API_EMAIL.
get_cloudflare_client(environ, auth_config) ==
    IF Truthy(environ.token_env)
    THEN [raised |-> None,
          client |-> Cloudflare([api_token |-> environ.token_env])]
    ELSE IF Truthy(environ.key_env) /\ Truthy(environ.email_env)
    THEN [raised |-> None,
          client |-> Cloudflare([api_key |-> environ.key_env,
                                 api_email |-> environ.email_env])]
    ELSE IF "api_token" \in DOMAIN auth_config
    THEN [raised |-> None,
          client |-> Cloudflare([api_token |-> auth_config.api_token])]
    ELSE IF "api_key" \in DOMAIN auth_config /\ "api_email" \in DOMAIN auth_config
    THEN [raised |-> None,
          client |-> Cloudflare([api_key |-> auth_config.api_key,
                                 api_email |-> auth_config.api_email])]
    ELSE [raised |-> "ValueError", client |-> None]

\* os.getenv of the three variables: unset, set to the empty string, or set
TokenEnvValues == {None, "", "env-token"}
KeyEnvValues == {None, "", "env-key"}
EmailEnvValues == {None, "", "env-mail"}

\* def validate_configuration(config): one positional parameter
ValidateConfigurationParams == 1
\* validate_configuration(config, get_cloudflare_client(...)): two arguments
ValidateConfigurationArgs == 2

\* Python binds the arguments of a call to the parameters of the function
\* and raises TypeError when there are too many or too few
CallRaisesTypeError(params, args) == args # params

\* The body of "for cf_config in config["cloudflare"]", from index i on
RECURSIVE ValidateLoop(_, _, _, _)
ValidateLoop(cfg, environ, i, valid) ==
    IF i > Len(cfg.cloudflare) THEN valid
    ELSE LET cf_zone == cfg.cloudflare[i]
             cf == get_cloudflare_client(environ, cf_zone.authentication)
         IN  IF cf.raised = None /\ environ.zone_lookup = "ok"
             THEN ValidateLoop(cfg, environ, i + 1,
                               Append(valid, Validated(cf_zone)))
             ELSE ValidateLoop(cfg, environ, i + 1, valid)

\* validate_configuration(config): the list of the zones whose lookup
\* succeeded
validate_configuration(cfg, environ) == ValidateLoop(cfg, environ, 1, <<>>)

MainInit ==
    /\ pc = "load"
    /\ env \in [config_file : ConfigFiles, token_env : TokenEnvValues,
                key_env : KeyEnvValues, email_env : EmailEnvValues,
                zone_lookup : {"ok", "not_found", "error"}]
    /\ config = None
    /\ run_result = None /\ exit_code = None /\ log = <<>>
    /\ valid_configs = <<>> /\ provider = <<>>
    /\ last_known_ip = None /\ ip = None
    /\ zone_idx = 0 /\ lookups = 0 /\ sleeps = 0 /\ api_failed = None
    /\ lookup = NoLookup /\ client = <<>>
    /\ updates = <<>> /\ raised = None /\ calls = <<>> /\ escaped = None
    /\ PassIdle

idleInMain == <<cf_config, records, first_updates, failed, env, provider,
                last_known_ip, ip, zone_idx, lookups, sleeps, api_failed,
                lookup, updates, calls, escaped>>

\* run(): "except Exception as e: logger.error(...); return 1"
RunFails(exception, logged) ==
    /\ raised' = exception
    /\ log' = log \o logged \o <<"Application error">>
    /\ run_result' = 1
    /\ pc' = "run_returned"

\* config = load_configuration()
LoadConfiguration ==
    /\ pc = "load"
    /\ \E r \in {load_configuration(env.config_file)} :
         IF r.raised # None
         THEN RunFails(r.raised, r.logged) /\ UNCHANGED config
         ELSE /\ config' = r.config
              /\ pc' = "client"
              /\ UNCHANGED <<raised, log, run_result>>
    /\ UNCHANGED <<valid_configs, exit_code, client>>
    /\ UNCHANGED idleInMain

\* The argument of the call at line 318:
\* get_cloudflare_client(config["cloudflare"][0]["authentication"])
GetClient ==
    /\ pc = "client"
    /\ IF config.cloudflare = <<>>
       THEN RunFails("IndexError", <<>>) /\ UNCHANGED client
       ELSE \E r \in {get_cloudflare_client(env,
                          config.cloudflare[1].authentication)} :
              IF r.raised # None
              THEN RunFails(r.raised, <<>>) /\ UNCHANGED client
              ELSE /\ client' = <<r.client>>
                   /\ pc' = "validate"
                   /\ UNCHANGED <<raised, log, run_result>>
    /\ UNCHANGED <<config, valid_configs, exit_code>>
    /\ UNCHANGED idleInMain

\* valid_configs = validate_configuration(config, <client>);
\* if not valid_configs: ... return 1
ValidateConfiguration ==
    /\ pc = "validate"
    /\ IF CallRaisesTypeError(ValidateConfigurationParams,
                              ValidateConfigurationArgs)
       THEN RunFails("TypeError", <<>>) /\ UNCHANGED valid_configs
       ELSE \E valid \in {validate_configuration(config, env)} :
              /\ valid_configs' = valid
              /\ IF valid = <<>>
                 THEN /\ log' = Append(log, "No valid configurations found")
                      /\ run_result' = 1
                      /\ pc' = "run_returned"
                      /\ UNCHANGED raised
                 ELSE /\ pc' = "lookup"
                      /\ UNCHANGED <<raised, log, run_result>>
    /\ UNCHANGED <<config, exit_code, client>>
    /\ UNCHANGED idleInMain

\* main(): "run(); return 0"
MainReturn ==
    /\ pc = "run_returned"
    /\ exit_code' = 0
    /\ pc' = "exited"
    /\ UNCHANGED <<config, valid_configs, raised, log, run_result, client>>
    /\ UNCHANGED idleInMain

\* main(): "except KeyboardInterrupt: ... return 0", while run() runs
Interrupt ==
    /\ pc \in {"load", "client", "validate"}
    /\ log' = Append(log, "Application stopped by user")
    /\ exit_code' = 0
    /\ pc' = "exited"
    /\ UNCHANGED <<config, valid_configs, raised, run_result, client>>
    /\ UNCHANGED idleInMain

MainNext ==
    LoadConfiguration \/ GetClient \/ ValidateConfiguration \/ MainReturn
    \/ Interrupt

SpecMain == MainInit /\ [][MainNext]_vars

Interrupted ==
    \E i \in 1..Len(log) : log[i] = "Application stopped by user"

\* C10: a configuration error at start-up is fatal: it is reported, the
\* polling loop is never entered and main returns exit code 1. run()
\* returns 1 but main() discards it and returns 0.
C10_ConfigErrorExitsOne ==
    /\ env.config_file \in ConfigErrors => pc # "lookup"
    /\ (pc = "exited" /\ env.config_file \in ConfigErrors /\ ~Interrupted) =>
          /\ log # <<>>
          /\ exit_code = 1

\* C12: validate_configuration, called with a configuration and a provider
\* client, never raises, returns the zone when the lookup succeeds and an
\* empty result when the zone is not found. The function takes one
\* parameter, so the call with two arguments raises TypeError.
C12_ValidateNeverRaises ==
    (pc \in {"run_returned", "lookup"}
     /\ env.config_file \in {"token", "key_email"}) =>
        /\ raised = None
        /\ env.zone_lookup = "ok" =>
              /\ Len(valid_configs) = 1
              /\ valid_configs[1].zone_id = config.cloudflare[1].zone_id
              /\ valid_configs[1].zone_name = ZoneNameOf(valid_configs[1].zone_id)
        /\ env.zone_lookup = "not_found" => valid_configs = <<>>

\* C14: load_configuration accepts and returns unchanged the configuration
\* whose subdomains carry name, proxied and ttl with a global ttl of 300, and
\* raises SchemaError for the zone entry without the required keys.
\* CONFIG_SCHEMA has no ttl key for a subdomain, so the first is rejected.
C14_LoadAcceptsSubdomainTtl ==
    /\ env.config_file = "subdomain_ttl" =>
          /\ raised # "SchemaError"
          /\ pc = "client" => config = LoadedConfig("subdomain_ttl")
    /\ (env.config_file = "schema_error" /\ pc = "run_returned") =>
          raised = "SchemaError"

-----------------------------------------------------------------------------
(* SpecClient: one call of get_cloudflare_client *)

\* The authentication entries of a zone: the two the schema accepts, and
\* entries with neither credential, half a pair, or both credentials
AuthConfigs ==
    {[api_token |-> "test-token"],
     [api_key |-> "test-key", api_email |-> "test@example.com"],
     [invalid |-> "config"],
     [api_key |-> "test-key"],
     [api_token |-> "test-token", api_key |-> "test-key",
      api_email |-> "test@example.com"]}

ClientInit ==
    /\ pc = "client"
    /\ env \in [token_env : TokenEnvValues, key_env : KeyEnvValues,
                email_env : EmailEnvValues]
    /\ cf_config \in [authentication : AuthConfigs]
    /\ client = <<>>
    /\ raised = None
    /\ records = <<>> /\ first_updates = <<>> /\ failed = {}
    /\ ip = None /\ updates = <<>> /\ calls = <<>> /\ escaped = None
    /\ run_result = None /\ exit_code = None /\ log = <<>>
    /\ LoopIdle

\* cf = get_cloudflare_client(auth_config)
GetCloudflareClient ==
    /\ pc = "client"
    /\ \E r \in {get_cloudflare_client(env, cf_config.authentication)} :
         /\ raised' = r.raised
         /\ client' = IF r.raised = None THEN <<r.client>> ELSE <<>>
    /\ pc' = "client_returned"
    /\ UNCHANGED <<cf_config, records, ip, updates, first_updates, calls,
                   failed, escaped, env, run_result, exit_code, log>>
    /\ UNCHANGED loopVars

ClientNext == GetCloudflareClient

SpecClient == ClientInit /\ [][ClientNext]_vars

EnvToken == Truthy(env.token_env)
EnvKeyEmail == Truthy(env.key_env) /\ Truthy(env.email_env)
ConfigToken == "api_token" \in DOMAIN cf_config.authentication
ConfigKeyEmail ==
    /\ "api_key" \in DOMAIN cf_config.authentication
    /\ "api_email" \in DOMAIN cf_config.authentication

\* C15: get_cloudflare_client takes the first available of the environment
\* token, the environment key and email, the config's api_token, the
\* config's api_key and api_email, and raises ValueError exactly when none
\* of the four is available. An environment variable is available when it
\* is set and not empty.
C15_CredentialOrder ==
    pc = "client_returned" =>
        /\ EnvToken => client = <<[api_token |-> env.token_env]>>
        /\ (~EnvToken /\ EnvKeyEmail) =>
              client = <<[api_key |-> env.key_env, api_email |-> env.email_env]>>
        /\ (~EnvToken /\ ~EnvKeyEmail /\ ConfigToken) =>
              client = <<[api_token |-> cf_config.authentication.api_token]>>
        /\ (~EnvToken /\ ~EnvKeyEmail /\ ~ConfigToken /\ ConfigKeyEmail) =>
              client = <<[api_key |-> cf_config.authentication.api_key,
                          api_email |-> cf_config.authentication.api_email]>>
        /\ raised = "ValueError" <=>
              ~(EnvToken \/ EnvKeyEmail \/ ConfigToken \/ ConfigKeyEmail)
        /\ raised \in {None, "ValueError"}
        /\ raised = "ValueError" => client = <<>>

\* The environment pair is used although the config has its own api_token
C15_Witness ==
    /\ pc = "client_returned"
    /\ ~EnvToken /\ EnvKeyEmail /\ ConfigToken
    /\ client = <<[api_key |-> "env-key", api_email |-> "env-mail"]>>

====
